---------------------------- MODULE Spec2Model ----------------------------
(***************************************************************************)
(* Model of the Pack0 validator (services/pack-factory/app/                *)
(* pack0_validator.py): validate_pack0 run over a pack that is a directory *)
(* or a zip archive.                                                       *)
(*                                                                         *)
(* Python strings the code only compares or stores (paths, gap details,    *)
(* section names) are TLA+ strings.  Python strings the code looks inside  *)
(* (document texts, pack_id, the root name, the module key) are sequences  *)
(* of one-character strings, so that lower(), strip(), split(), re.sub(),  *)
(* re.search() and "in" are computed character by character.  A gap        *)
(* f"{kind}::{detail}" is the pair <<kind, detail>>.                       *)
(***************************************************************************)
EXTENDS Integers, Sequences, FiniteSets, TLC

VARIABLES
    REQUIRED_PATHS,     \* the module-level list of pack0_validator.py:10
    REQUIRED_SECTIONS,  \* the module-level list of pack0_validator.py:21
    pack,               \* the pack `target` names: what is on disk
    pc,                 \* the position of the running call
    gaps,               \* validate_pack0's local list
    checked_paths,      \* local
    checked_sections,   \* local
    meta,               \* local dict
    plan_text,          \* local
    mod_key,            \* local
    result,             \* what the call gave its caller
    calls,              \* number of calls started so far
    history             \* module keys of the calls that ended before this one

vars == <<REQUIRED_PATHS, REQUIRED_SECTIONS, pack, pc, gaps, checked_paths,
          checked_sections, meta, plan_text, mod_key, result, calls, history>>

-----------------------------------------------------------------------------
(* Bounds of the model.                                                    *)

\* A pack of the input family lacks at most this many of the 14 paths the
\* validator can ask for.
MaxMissing == 1

\* Calls of validate_pack0 made one after the other in one behaviour of
\* SpecCalls.
MaxCalls == 2

\* Length of the generated part of a pack_id in SpecKey.
MaxLen == 3

-----------------------------------------------------------------------------
(* Python str operations, on sequences of characters.                      *)

UpperChars == <<"A","B","C","D","E","F","G","H","I","J","K","L","M","N","O","P","Q","R","S","T","U","V",
      "W","X","Y","Z","Ç","Ã","É","Õ","Ó","Í","Ê","Á">>

LowerChars == <<"a","b","c","d","e","f","g","h","i","j","k","l","m","n","o","p","q","r","s","t","u","v",
      "w","x","y","z","ç","ã","é","õ","ó","í","ê","á">>

UpperSet == {UpperChars[i] : i \in DOMAIN UpperChars}

LowerSet == {LowerChars[i] : i \in DOMAIN LowerChars}

LowerOf == [c \in UpperSet |->
              LowerChars[CHOOSE i \in DOMAIN UpperChars : UpperChars[i] = c]]

Digits == {"0", "1", "2", "3", "4", "5", "6", "7", "8", "9"}

\* [a-z0-9] of the regular expression of line 134 (ASCII only).
AsciiLowerAlnum == {LowerChars[i] : i \in 1..26} \cup Digits

\* \s of the regular expressions, and what str.strip() removes.
Whitespace == {" ", "\t", "\n", "\r"}

\* \w of the regular expressions (Unicode letters, digits, underscore).
WordChars == UpperSet \cup LowerSet \cup Digits \cup {"_"}

\* A function over 1..n as a sequence value.
TupleOf(f) == SubSeq(f, 1, Len(f))

MinOf(S) == CHOOSE x \in S : \A y \in S : x <= y

MaxOf(S) == CHOOSE x \in S : \A y \in S : x >= y

\* s.lower()
lower(s) == TupleOf([i \in 1..Len(s) |->
                        IF s[i] \in UpperSet THEN LowerOf[s[i]] ELSE s[i]])

\* s.startswith(prefix)
startswith(s, prefix) ==
    Len(s) >= Len(prefix) /\ SubSeq(s, 1, Len(prefix)) = prefix

\* s.strip(chars): the characters of `chars` removed from both ends.
strip_chars(s, chars) ==
    LET keep == {i \in 1..Len(s) : s[i] \notin chars}
    IN  IF keep = {} THEN <<>> ELSE SubSeq(s, MinOf(keep), MaxOf(keep))

\* s.strip()
strip(s) == strip_chars(s, Whitespace)

\* needle in hay
contains(hay, needle) ==
    \E i \in 1..(Len(hay) + 1 - Len(needle)) :
        \A j \in 1..Len(needle) : hay[i + j - 1] = needle[j]

\* s.replace(ch, "")
remove_char(s, ch) == SelectSeq(s, LAMBDA c : c # ch)

\* re.sub(<class>+, repl, s): every maximal run of characters of the class
\* becomes the one character repl.  in_class[i] tells whether s[i] is of the
\* class.
collapse_runs(s, in_class, repl) ==
    LET marked == [i \in 1..Len(s) |->
                     [c    |-> IF in_class[i] THEN repl ELSE s[i],
                      drop |-> in_class[i] /\ i > 1 /\ in_class[i - 1]]]
        kept   == SelectSeq(marked, LAMBDA m : ~m.drop)
    IN  TupleOf([i \in 1..Len(kept) |-> kept[i].c])

\* re.sub(r"[^a-z0-9]+", "-", s)
re_sub_non_alnum(s) ==
    collapse_runs(s, TupleOf([i \in 1..Len(s) |-> s[i] \notin AsciiLowerAlnum]), "-")

\* re.sub(r"\s+", " ", s)
re_sub_whitespace(s) ==
    collapse_runs(s, TupleOf([i \in 1..Len(s) |-> s[i] \in Whitespace]), " ")

\* s.split("-")[1] when "-" in s, else "" (line 131)
split_hyphen_field1(s) ==
    LET hy == {i \in 1..Len(s) : s[i] = "-"}
    IN  IF hy = {} THEN <<>>
        ELSE LET first == MinOf(hy)
                 rest  == {i \in hy : i > first}
                 stop  == IF rest = {} THEN Len(s) + 1 ELSE MinOf(rest)
             IN  SubSeq(s, first + 1, stop - 1)

\* re.search(r"\b<PREFIX>[-_\s]?\d+", text, re.IGNORECASE) is not None,
\* prefix given in lower case.
re_search_id(prefix, text) ==
    LET low == lower(text)
        n   == Len(prefix)
    IN  \E i \in 1..Len(text) :
           /\ i = 1 \/ text[i - 1] \notin WordChars
           /\ i + n - 1 <= Len(text)
           /\ \A j \in 1..n : low[i + j - 1] = prefix[j]
           /\ \/ i + n <= Len(text) /\ text[i + n] \in Digits
              \/ /\ i + n + 1 <= Len(text)
                 /\ text[i + n] \in {"-", "_"} \cup Whitespace
                 /\ text[i + n + 1] \in Digits

-----------------------------------------------------------------------------
(* The module's constants.                                                 *)

PLAN == "docs/PLAN.md"

MANIFEST == "02_INVENTORY/manifest.json"

MEETCORE_SLICES == "docs/MEETCORE_SLICES.md"

PERFORMANCE_BUDGETS == "docs/PERFORMANCE_BUDGETS.md"

DATA_RETENTION_MATRIX == "docs/DATA_RETENTION_MATRIX.md"

\* The value the module gives REQUIRED_PATHS.
BaselinePaths ==
    << "docs/PLAN.md",
       "docs/PROMPT_CONTINUIDADE.md",
       "docs/TROUBLESHOOTING.md",
       "docs/DEFINITION_OF_DONE.md",
       "runbooks/HOW_TO_RUN.md",
       "runbooks/HOW_TO_DEPLOY.md",
       "runbooks/HOW_TO_ROLLBACK.md",
       "contracts/README.json" >>

\* The value the module gives REQUIRED_SECTIONS.
SectionNames ==
    << "Introdução", "Propósito", "Escopo", "Características dos Usuários",
       "Referências", "Visão Geral do Produto", "Perspectiva do Produto",
       "Funcionalidades", "Ambiente Operacional", "Limitações",
       "Suposições e Dependências", "Requisitos Funcionais",
       "Requisitos Não Funcionais", "Casos de Uso", "Diagramas",
       "Rastreabilidade", "Plano de Implementação", "Testes", "Aceite",
       "Rollout", "Rollback", "Definition of Done" >>

\* The characters of each section name.
SectionChars ==
    ("Introdução" :> <<"I","n","t","r","o","d","u","ç","ã","o">>) @@
    ("Propósito" :> <<"P","r","o","p","ó","s","i","t","o">>) @@
    ("Escopo" :> <<"E","s","c","o","p","o">>) @@
    ("Características dos Usuários" :> <<"C","a","r","a","c","t","e","r","í","s","t","i","c","a","s"," ","d","o","s"," ","U","s",
      "u","á","r","i","o","s">>) @@
    ("Referências" :> <<"R","e","f","e","r","ê","n","c","i","a","s">>) @@
    ("Visão Geral do Produto" :> <<"V","i","s","ã","o"," ","G","e","r","a","l"," ","d","o"," ","P","r","o","d","u","t","o">>) @@
    ("Perspectiva do Produto" :> <<"P","e","r","s","p","e","c","t","i","v","a"," ","d","o"," ","P","r","o","d","u","t","o">>) @@
    ("Funcionalidades" :> <<"F","u","n","c","i","o","n","a","l","i","d","a","d","e","s">>) @@
    ("Ambiente Operacional" :> <<"A","m","b","i","e","n","t","e"," ","O","p","e","r","a","c","i","o","n","a","l">>) @@
    ("Limitações" :> <<"L","i","m","i","t","a","ç","õ","e","s">>) @@
    ("Suposições e Dependências" :> <<"S","u","p","o","s","i","ç","õ","e","s"," ","e"," ","D","e","p","e","n","d","ê","n","c",
      "i","a","s">>) @@
    ("Requisitos Funcionais" :> <<"R","e","q","u","i","s","i","t","o","s"," ","F","u","n","c","i","o","n","a","i","s">>) @@
    ("Requisitos Não Funcionais" :> <<"R","e","q","u","i","s","i","t","o","s"," ","N","ã","o"," ","F","u","n","c","i","o","n",
      "a","i","s">>) @@
    ("Casos de Uso" :> <<"C","a","s","o","s"," ","d","e"," ","U","s","o">>) @@
    ("Diagramas" :> <<"D","i","a","g","r","a","m","a","s">>) @@
    ("Rastreabilidade" :> <<"R","a","s","t","r","e","a","b","i","l","i","d","a","d","e">>) @@
    ("Plano de Implementação" :> <<"P","l","a","n","o"," ","d","e"," ","I","m","p","l","e","m","e","n","t","a","ç","ã","o">>) @@
    ("Testes" :> <<"T","e","s","t","e","s">>) @@
    ("Aceite" :> <<"A","c","e","i","t","e">>) @@
    ("Rollout" :> <<"R","o","l","l","o","u","t">>) @@
    ("Rollback" :> <<"R","o","l","l","b","a","c","k">>) @@
    ("Definition of Done" :> <<"D","e","f","i","n","i","t","i","o","n"," ","o","f"," ","D","o","n","e">>)

connect_required == << "docs/CONNECT_SLICES.md", "docs/DATA_RETENTION_MATRIX.md" >>

app_lai_required == << "docs/APP_LAI_SLICES.md", "docs/DATA_RETENTION_MATRIX.md" >>

culture_people_required ==
    << "docs/CULTURE_PEOPLE_SLICES.md", "docs/DATA_RETENTION_MATRIX.md" >>

meetcore_required ==
    << "docs/MEETCORE_SLICES.md",
       "docs/PERFORMANCE_BUDGETS.md",
       "docs/DATA_RETENTION_MATRIX.md" >>

meetcore_key == <<"m","e","e","t","c","o","r","e">>

connect_aliases == { <<"l","a","i","-","c","o","n","n","e","c","t">>, <<"c","o","n","n","e","c","t">>, <<"l","a","i","-","c","o","n","n","e","c","t","-","m","v","p">> }

\* Faulty variant of app_lai_aliases: an alias of the connect family pasted in.
app_lai_aliases_pasted == { <<"a","p","p","-","l","a","i">>, <<"a","p","p">>, <<"l","a","i","-","a","p","p">>, <<"l","a","i","-","c","o","n","n","e","c","t">> }

app_lai_aliases == { <<"a","p","p","-","l","a","i">>, <<"a","p","p">>, <<"l","a","i","-","a","p","p">> }

culture_people_aliases ==
    { <<"c","u","l","t","u","r","e","-","p","e","o","p","l","e">>, <<"c","u","l","t","u","r","e">>, <<"l","a","i","-","c","u","l","t","u","r","e">>, <<"c","u","l","t","u","r","e","-","a","n","d","-","p","e","o","p","l","e">> }

pack0_prefix == <<"p","a","c","k","0","-">>

\* The gaps of the content checks and of the id checks.
GapSlices == <<"missing_trace", "meetcore_slices_PEC1_01_not_found">>

GapBudget == <<"missing_trace", "meetcore_budget_streaming_300ms_not_found">>

GapRetention == <<"missing_trace", "retention_matrix_culture_people_not_found">>

GapDocsReadFailed == <<"validation_error", "meetcore_docs_read_failed">>

GapRF == <<"missing_trace", "RF_ids_not_found">>

GapRNF == <<"missing_trace", "RNF_ids_not_found">>

GapUC == <<"missing_trace", "UC_ids_not_found">>

\* The empty dict and the empty str.
EmptyDict == [k \in {} |-> <<>>]

EmptyStr == <<>>

\* d.get(key, "")
dict_get(d, key) == IF key \in DOMAIN d THEN d[key] ELSE EmptyStr


-----------------------------------------------------------------------------
(* A pack on disk.                                                         *)
(*   kind     "dir": a directory; "zip": a zip archive; "absent": no such  *)
(*            path; "notzip": a file that is no zip archive                *)
(*   name     the last component of the path (Path.name)                   *)
(*   present  the relative paths that exist in the pack                    *)
(*   text     the decoded contents of the documents the validator reads    *)
(*   manifest 02_INVENTORY/manifest.json: whether it exists, what          *)
(*            json.loads makes of it ("object": a dict, obj; "invalid": it *)
(*            raises)                                                      *)

Range(seq) == {seq[i] : i \in DOMAIN seq}

AllPaths ==
    Range(BaselinePaths) \cup Range(meetcore_required) \cup Range(connect_required)
        \cup Range(app_lai_required) \cup Range(culture_people_required)

TextPaths == {PLAN, MEETCORE_SLICES, PERFORMANCE_BUDGETS, DATA_RETENTION_MATRIX}

\* Optional[str]: None, or a str.
None == [some |-> FALSE, text |-> EmptyStr]

Some(text) == [some |-> TRUE, text |-> text]

\* p.is_dir()
is_dir(p) == p.kind = "dir"

\* Faulty variant of is_zip: a root that cannot be opened read as an empty
\* archive.
is_zip_unchecked(p) == TRUE

\* zipfile.ZipFile(p, "r") opens
is_zip(p) == p.kind = "zip"

\* (p / rp).exists()
path_exists(p, rp) == rp \in p.present

\* (p / rp).read_text(encoding="utf-8", errors="ignore") of an existing file
path_read_text(p, rp) == p.text[rp]

\* Faulty variant of _exists_in_zip: True returned whatever getinfo does.
_exists_in_zip_always(p, rp) == TRUE

_exists_in_zip(p, rp) == rp \in p.present

_read_from_zip(p, rp) == IF rp \in p.present THEN Some(p.text[rp]) ELSE None

\* The existence test of the branch taken for the pack.
exists_in_pack(p, rp) == IF is_dir(p) THEN path_exists(p, rp) ELSE _exists_in_zip(p, rp)

\* for rp in paths: if not <exists>: gaps.append(f"missing_path::{rp}")
missing_path_gaps(p, paths) ==
    LET missing == SelectSeq(paths, LAMBDA rp : ~exists_in_pack(p, rp))
    IN  TupleOf([i \in 1..Len(missing) |-> <<"missing_path", missing[i]>>])

\* Faulty variant of meta_from_manifest: the except branch fills in empty
\* strings instead of passing.
meta_from_manifest_defaults(m, d) ==
    IF m.json = "object"
    THEN [k \in DOMAIN d \cup {"pack_id", "version"} |-> dict_get(m.obj, k)]
    ELSE [k \in DOMAIN d \cup {"pack_id", "version"} |-> EmptyStr]

\* try: m = json.loads(...); meta["pack_id"] = str(m.get("pack_id", ""));
\* meta["version"] = str(m.get("version", "")) except Exception: pass
meta_from_manifest(m, d) ==
    IF m.json = "object"
    THEN [k \in DOMAIN d \cup {"pack_id", "version"} |-> dict_get(m.obj, k)]
    ELSE d

\* The locals of a call after lines 76-82.
NewFrame(RP, RS) ==
    [gaps             |-> <<>>,
     checked_paths    |-> RP,
     checked_sections |-> RS,
     meta             |-> EmptyDict,
     plan_text        |-> EmptyStr,
     mod_key          |-> EmptyStr]

\* Lines 84-101: the directory branch.
load_dir(p, f, RP) ==
    [f EXCEPT !.gaps = f.gaps \o missing_path_gaps(p, RP),
              !.plan_text = IF path_exists(p, PLAN) THEN path_read_text(p, PLAN)
                            ELSE f.plan_text,
              !.meta = IF p.manifest.exists THEN meta_from_manifest(p.manifest, f.meta)
                       ELSE f.meta]

\* Lines 103-121: the archive branch.
load_zip(p, f, RP) ==
    LET plan == _read_from_zip(p, PLAN)
    IN  [f EXCEPT !.gaps = f.gaps \o missing_path_gaps(p, RP),
                  !.plan_text = IF plan.some /\ plan.text # EmptyStr THEN plan.text
                                ELSE f.plan_text,
                  !.meta = IF p.manifest.exists
                           THEN meta_from_manifest(p.manifest, f.meta)
                           ELSE f.meta]

\* Lines 125-131.
module_name(pid, name) ==
    IF startswith(pid, pack0_prefix)
    THEN lower(strip(SubSeq(pid, Len(pack0_prefix) + 1, Len(pid))))
    ELSE IF startswith(name, pack0_prefix)
         THEN lower(strip(split_hyphen_field1(name)))
         ELSE EmptyStr

\* Faulty variant of normalize_key: the .strip("-") left out.
normalize_key_untrimmed(raw) ==
    re_sub_non_alnum(lower(raw))

\* Line 134: re.sub(r"[^a-z0-9]+", "-", (module_name or "").lower()).strip("-")
normalize_key(raw) ==
    strip_chars(re_sub_non_alnum(lower(raw)),
                {"-"})

resolve_module_key(p, f) ==
    [f EXCEPT !.mod_key = normalize_key(module_name(dict_get(f.meta, "pack_id"), p.name))]

\* for rp in required: if rp not in checked_paths: checked_paths.append(rp)
RECURSIVE append_new(_, _)
append_new(checked, required) ==
    IF required = <<>> THEN checked
    ELSE append_new(IF Head(required) \in Range(checked) THEN checked
                    ELSE Append(checked, Head(required)),
                    Tail(required))

\* Lines 147-159, and _ensure_required (lines 186-198).
ensure_required(p, f, required) ==
    [f EXCEPT !.checked_paths = append_new(f.checked_paths, required),
              !.gaps = f.gaps \o missing_path_gaps(p, required)]

\* Lines 174-180 run in order inside the try: a None document raises
\* AttributeError at its .lower(), after the appends of the checks before it.
content_checks(slices, budgets, retention, g) ==
    IF ~slices.some THEN [raised |-> TRUE, gaps |-> g]
    ELSE
    LET g1 == IF contains(lower(slices.text), <<"p","e","c","1",".","0","1">>) THEN g
              ELSE Append(g, GapSlices)
    IN  IF ~budgets.some THEN [raised |-> TRUE, gaps |-> g1]
        ELSE
        LET g2 == IF contains(remove_char(lower(budgets.text), " "), <<"3","0","0","m","s">>) THEN g1
                  ELSE Append(g1, GapBudget)
        IN  IF ~retention.some THEN [raised |-> TRUE, gaps |-> g2]
            ELSE
            LET rlow == lower(retention.text)
                g3   == IF /\ contains(rlow, <<"c","u","l","t","u","r","e">>)
                           /\ contains(rlow, <<"p","e","o","p","l","e">>)
                           /\ contains(rlow, <<"p","i","p","e","l","i","n","e">>)
                        THEN g2
                        ELSE Append(g2, GapRetention)
            IN  [raised |-> FALSE, gaps |-> g3]

\* Lines 164-167: read_text raises FileNotFoundError at the first document
\* that does not exist, before any check runs.
try_content_dir(p, g) ==
    IF \E rp \in Range(meetcore_required) : ~path_exists(p, rp)
    THEN [raised |-> TRUE, gaps |-> g]
    ELSE content_checks(Some(path_read_text(p, MEETCORE_SLICES)),
                        Some(path_read_text(p, PERFORMANCE_BUDGETS)),
                        Some(path_read_text(p, DATA_RETENTION_MATRIX)), g)

\* Lines 168-172: _read_from_zip gives None for a missing entry.
try_content_zip(p, g) ==
    content_checks(_read_from_zip(p, MEETCORE_SLICES),
                   _read_from_zip(p, PERFORMANCE_BUDGETS),
                   _read_from_zip(p, DATA_RETENTION_MATRIX), g)

\* Lines 163-182.
meetcore_content(p, f) ==
    LET t == IF is_dir(p) THEN try_content_dir(p, f.gaps) ELSE try_content_zip(p, f.gaps)
    IN  [f EXCEPT !.gaps = IF t.raised THEN Append(t.gaps, GapDocsReadFailed)
                           ELSE t.gaps]

\* Lines 146-182: the block under `if mod_key == "meetcore"`.
meetcore_gate(p, f) ==
    IF f.mod_key = meetcore_key
    THEN meetcore_content(p, ensure_required(p, f, meetcore_required))
    ELSE f

\* Lines 200-207.
family_gating(p, f) ==
    LET f1 == IF f.mod_key \in connect_aliases
              THEN ensure_required(p, f, connect_required) ELSE f
        f2 == IF f1.mod_key \in app_lai_aliases
              THEN ensure_required(p, f1, app_lai_required) ELSE f1
    IN  IF f2.mod_key \in culture_people_aliases
        THEN ensure_required(p, f2, culture_people_required) ELSE f2

\* Faulty variant of normalized_plan: the .lower() left out.
normalized_plan_case_kept(text) == re_sub_whitespace(text)

\* Line 213.
normalized_plan(text) == lower(re_sub_whitespace(text))

\* Line 215.
section_missing(sec, normalized) == ~contains(normalized, lower(SectionChars[sec]))

\* Lines 213-216.
check_sections(f, RS) ==
    LET normalized == normalized_plan(f.plan_text)
        missing    == SelectSeq(RS, LAMBDA sec : section_missing(sec, normalized))
    IN  [f EXCEPT !.gaps = f.gaps \o
            TupleOf([i \in 1..Len(missing) |-> <<"missing_section", missing[i]>>])]

\* Faulty variant of check_trace_ids: the id checks run only when no gap was
\* found before them.
check_trace_ids_unless_gaps(f) ==
    IF f.gaps # <<>> THEN f
    ELSE LET g1 == IF re_search_id(<<"r","f">>, f.plan_text) THEN f.gaps
                   ELSE Append(f.gaps, GapRF)
             g2 == IF re_search_id(<<"r","n","f">>, f.plan_text) THEN g1 ELSE Append(g1, GapRNF)
             g3 == IF re_search_id(<<"u","c">>, f.plan_text) THEN g2 ELSE Append(g2, GapUC)
         IN  [f EXCEPT !.gaps = g3]

\* Lines 219-224.
check_trace_ids(f) ==
    LET g1 == IF re_search_id(<<"r","f">>, f.plan_text) THEN f.gaps
              ELSE Append(f.gaps, GapRF)
        g2 == IF re_search_id(<<"r","n","f">>, f.plan_text) THEN g1 ELSE Append(g1, GapRNF)
        g3 == IF re_search_id(<<"u","c">>, f.plan_text) THEN g2 ELSE Append(g2, GapUC)
    IN  [f EXCEPT !.gaps = g3]

\* Lines 226-227.
make_report(f) ==
    [ok               |-> Len(f.gaps) = 0,
     gaps             |-> f.gaps,
     checked_paths    |-> f.checked_paths,
     checked_sections |-> f.checked_sections,
     meta             |-> f.meta]

\* What a call gives its caller.
NoResult == [tag |-> "none"]

Raised(exc) == [tag |-> "raised", exc |-> exc]

Returned(report) == [tag |-> "report", report |-> report]

\* The exception that leaves validate_pack0 when the root cannot be opened:
\* is_dir() is false, and zipfile.ZipFile(p, "r") raises.
open_error(p) ==
    IF p.kind = "absent" THEN "FileNotFoundError" ELSE "BadZipFile"

\* The whole call, as the composition of its stages, on a pack and the
\* values of the two module-level lists.
validate_pack0(p, RP, RS) ==
    IF ~is_dir(p) /\ ~is_zip(p) THEN Raised(open_error(p))
    ELSE
    LET f0 == NewFrame(RP, RS)
        f1 == IF is_dir(p) THEN load_dir(p, f0, RP) ELSE load_zip(p, f0, RP)
        f2 == resolve_module_key(p, f1)
        f3 == meetcore_gate(p, f2)
        f4 == family_gating(p, f3)
        f5 == check_sections(f4, RS)
        f6 == check_trace_ids(f5)
    IN  Returned(make_report(f6))


-----------------------------------------------------------------------------
(* The packs the model validates.                                          *)

\* A plan with the 22 headings as written in REQUIRED_SECTIONS, one a line,
\* and one id of each kind.
PlanFull ==
    <<"I","n","t","r","o","d","u","ç","ã","o","\n","P","r","o","p","ó","s","i","t","o","\n",
      "E","s","c","o","p","o","\n","C","a","r","a","c","t","e","r","í","s","t","i","c","a",
      "s"," ","d","o","s"," ","U","s","u","á","r","i","o","s","\n","R","e","f","e","r","ê",
      "n","c","i","a","s","\n","V","i","s","ã","o"," ","G","e","r","a","l"," ","d","o"," ",
      "P","r","o","d","u","t","o","\n","P","e","r","s","p","e","c","t","i","v","a"," ","d",
      "o"," ","P","r","o","d","u","t","o","\n","F","u","n","c","i","o","n","a","l","i","d",
      "a","d","e","s","\n","A","m","b","i","e","n","t","e"," ","O","p","e","r","a","c","i",
      "o","n","a","l","\n","L","i","m","i","t","a","ç","õ","e","s","\n","S","u","p","o","s",
      "i","ç","õ","e","s"," ","e"," ","D","e","p","e","n","d","ê","n","c","i","a","s","\n",
      "R","e","q","u","i","s","i","t","o","s"," ","F","u","n","c","i","o","n","a","i","s",
      "\n","R","e","q","u","i","s","i","t","o","s"," ","N","ã","o"," ","F","u","n","c","i",
      "o","n","a","i","s","\n","C","a","s","o","s"," ","d","e"," ","U","s","o","\n","D","i",
      "a","g","r","a","m","a","s","\n","R","a","s","t","r","e","a","b","i","l","i","d","a",
      "d","e","\n","P","l","a","n","o"," ","d","e"," ","I","m","p","l","e","m","e","n","t",
      "a","ç","ã","o","\n","T","e","s","t","e","s","\n","A","c","e","i","t","e","\n","R","o",
      "l","l","o","u","t","\n","R","o","l","l","b","a","c","k","\n","D","e","f","i","n","i",
      "t","i","o","n"," ","o","f"," ","D","o","n","e","\n","R","F","-","0","1"," ","R","N",
      "F","-","0","2"," ","U","C","-","0","3","\n">>

\* A plan with some headings only: one in capitals, one wrapped over two
\* lines, one inside a longer word; an RF and an RNF id, no UC id.
PlanPartial ==
    <<"I","N","T","R","O","D","U","Ç","Ã","O","\n","R","e","q","u","i","s","i","t","o","s",
      " ","\n"," "," ","F","u","n","c","i","o","n","a","i","s","\n","P","r","e","-","R","o",
      "l","l","b","a","c","k","\n","r","f","_","7",","," ","R","N","F","1",","," ","x","U",
      "C","-","2","\n">>

SlicesOk == <<"#"," ","S","l","i","c","e","s","\n","-"," ","P","E","C","1",".","0","1"," ","c","a",
      "p","t","u","r","a">>

SlicesBad == <<"#"," ","S","l","i","c","e","s","\n","-"," ","P","E","C","1",".","0","2">>

BudgetsOk == <<"S","t","r","e","a","m","i","n","g"," ","<","="," ","3","0","0"," ","m","s">>

BudgetsBad == <<"S","t","r","e","a","m","i","n","g"," ","<","="," ","3","5","0","m","s">>

RetentionOk == <<"C","u","l","t","u","r","e"," ","|"," ","P","e","o","p","l","e"," ","|"," ","P","i","p",
      "e","l","i","n","e">>

RetentionBad == <<"C","u","l","t","u","r","e"," ","|"," ","P","e","o","p","l","e">>

DocTexts(plan, slices, budgets, retention) ==
    (PLAN :> plan) @@ (MEETCORE_SLICES :> slices) @@
    (PERFORMANCE_BUDGETS :> budgets) @@ (DATA_RETENTION_MATRIX :> retention)

\* The contents of the four documents: either plan, with the three meetcore
\* documents all passing, one of them failing its check, or all failing.
Texts ==
    {DocTexts(plan, d[1], d[2], d[3]) :
        plan \in {PlanFull, PlanPartial},
        d \in {<<SlicesOk, BudgetsOk, RetentionOk>>,
               <<SlicesBad, BudgetsOk, RetentionOk>>,
               <<SlicesOk, BudgetsBad, RetentionOk>>,
               <<SlicesOk, BudgetsOk, RetentionBad>>,
               <<SlicesBad, BudgetsBad, RetentionBad>>}}

NoManifest == [exists |-> FALSE, json |-> "none", obj |-> EmptyDict]

InvalidManifest == [exists |-> TRUE, json |-> "invalid", obj |-> EmptyDict]

ObjectManifest(obj) == [exists |-> TRUE, json |-> "object", obj |-> obj]

MeetcoreManifest ==
    ObjectManifest([pack_id |-> <<"p","a","c","k","0","-","M","e","e","t","c","o","r","e">>, version |-> <<"1",".","0",".","0">>])

ConnectManifest == ObjectManifest([pack_id |-> <<"p","a","c","k","0","-","L","A","I"," ","C","o","n","n","e","c","t","!","!">>])

NameUnknown == <<"p","a","c","k","0","-","u","n","k","n","o","w","n","-","t","h","i","n","g">>

NameApp == <<"p","a","c","k","0","-","a","p","p">>

NameCulture == <<"p","a","c","k","0","-","c","u","l","t","u","r","e","-","0",".","0",".","1">>

\* Root name and manifest of a pack: no manifest under each root name, a
\* manifest json.loads rejects, a manifest without pack_id, and manifests
\* whose pack_id names a module.
Identities ==
    {<<NameUnknown, NoManifest>>, <<NameApp, NoManifest>>,
     <<NameCulture, NoManifest>>, <<NameCulture, InvalidManifest>>,
     <<NameUnknown, ObjectManifest(EmptyDict)>>,
     <<NameUnknown, MeetcoreManifest>>, <<NameApp, ConnectManifest>>}

MissingSets == {S \in SUBSET AllPaths : Cardinality(S) <= MaxMissing}

MakePack(kind, name, manifest, missing, texts) ==
    [kind     |-> kind,
     name     |-> name,
     manifest |-> manifest,
     present  |-> AllPaths \ missing,
     text     |-> [t \in TextPaths |-> IF t \in missing THEN EmptyStr ELSE texts[t]]]

\* Roots that cannot be opened: no such path, and a file that is no archive.
Unopenable ==
    {[kind |-> k, name |-> NameUnknown, manifest |-> NoManifest, present |-> {},
      text |-> [t \in TextPaths |-> EmptyStr]] : k \in {"absent", "notzip"}}

Packs ==
    {MakePack(k, id[1], id[2], miss, tx) :
        k \in {"dir", "zip"}, id \in Identities,
        miss \in MissingSets, tx \in Texts}
    \cup Unopenable

\* The packs of SpecCalls: gated and ungated, whole and lacking a file.
FewPacks ==
    {MakePack(k, n, m, miss, DocTexts(PlanPartial, SlicesOk, BudgetsBad, RetentionOk)) :
        k \in {"dir", "zip"}, n \in {NameUnknown, NameCulture},
        m \in {NoManifest, MeetcoreManifest},
        miss \in {{}, {DATA_RETENTION_MATRIX}, {"contracts/README.json"}}}
    \cup Unopenable

\* The packs of SpecKey: directories whose manifest gives any pack_id made
\* of "pack0-" or nothing followed by up to MaxLen characters, under some
\* root names.
KeyAlphabet == {"a", "B", "7", "-", " ", "É"}

KeyStrings == UNION {[1..n -> KeyAlphabet] : n \in 0..MaxLen}

KeyNames ==
    {NameUnknown, <<"p","a","c","k","0","-","L","A","I"," ","C","o","n","n","e","c","t","!","!">>, <<"p","a","c","k","0">>, <<"p","a","c","k","0","-">>, <<"b","u","n","d","l","e","-","x">>}

KeyManifests ==
    {NoManifest, MeetcoreManifest, ConnectManifest}
    \cup {ObjectManifest([pack_id |-> pack0_prefix \o s1]) : s1 \in KeyStrings}
    \cup {ObjectManifest([pack_id |-> s2]) : s2 \in KeyStrings}

KeyPacks ==
    {MakePack("dir", n, m, {}, DocTexts(EmptyStr, SlicesOk, BudgetsOk, RetentionOk)) :
        n \in KeyNames, m \in KeyManifests}

-----------------------------------------------------------------------------
(* The state machine.                                                      *)

Locals ==
    [gaps             |-> gaps,
     checked_paths    |-> checked_paths,
     checked_sections |-> checked_sections,
     meta             |-> meta,
     plan_text        |-> plan_text,
     mod_key          |-> mod_key]

SetLocals(f) ==
    /\ gaps' = f.gaps
    /\ checked_paths' = f.checked_paths
    /\ checked_sections' = f.checked_sections
    /\ meta' = f.meta
    /\ plan_text' = f.plan_text
    /\ mod_key' = f.mod_key

\* The locals before a call has set them.
Blank == NewFrame(<<>>, <<>>)

\* Faulty variant of required_paths_after: checked_paths = REQUIRED_PATHS, the
\* same list object, so the appends land in the module's list.
required_paths_aliased(RP, checked) == checked

\* REQUIRED_PATHS after the call appended to checked_paths: line 78 made
\* checked_paths a copy, list(REQUIRED_PATHS), so the module's list is as it
\* was.
required_paths_after(RP, checked) == RP

StartWith(family) ==
    /\ REQUIRED_PATHS = BaselinePaths
    /\ REQUIRED_SECTIONS = SectionNames
    /\ pack \in family
    /\ pc = "enter"
    /\ gaps = Blank.gaps
    /\ checked_paths = Blank.checked_paths
    /\ checked_sections = Blank.checked_sections
    /\ meta = Blank.meta
    /\ plan_text = Blank.plan_text
    /\ mod_key = Blank.mod_key
    /\ result = NoResult
    /\ calls = 1
    /\ history = <<>>

Init == StartWith(Packs)

InitCalls == StartWith(FewPacks)

InitKey == StartWith(KeyPacks)

\* Lines 76-82.
Enter ==
    /\ pc = "enter"
    /\ SetLocals(NewFrame(REQUIRED_PATHS, REQUIRED_SECTIONS))
    /\ pc' = "open"
    /\ UNCHANGED <<REQUIRED_PATHS, REQUIRED_SECTIONS, pack, result, calls, history>>

\* Lines 84-101.
OpenDir ==
    /\ pc = "open"
    /\ is_dir(pack)
    /\ SetLocals(load_dir(pack, Locals, REQUIRED_PATHS))
    /\ pc' = "module_key"
    /\ UNCHANGED <<REQUIRED_PATHS, REQUIRED_SECTIONS, pack, result, calls, history>>

\* Lines 103-121.
OpenZip ==
    /\ pc = "open"
    /\ ~is_dir(pack)
    /\ is_zip(pack)
    /\ SetLocals(load_zip(pack, Locals, REQUIRED_PATHS))
    /\ pc' = "module_key"
    /\ UNCHANGED <<REQUIRED_PATHS, REQUIRED_SECTIONS, pack, result, calls, history>>

\* Line 105 raises: nothing catches it in validate_pack0.
OpenFails ==
    /\ pc = "open"
    /\ ~is_dir(pack)
    /\ ~is_zip(pack)
    /\ result' = Raised(open_error(pack))
    /\ pc' = "raised"
    /\ UNCHANGED <<REQUIRED_PATHS, REQUIRED_SECTIONS, pack, gaps, checked_paths,
                   checked_sections, meta, plan_text, mod_key, calls, history>>

\* Lines 125-134.
ResolveModuleKey ==
    /\ pc = "module_key"
    /\ SetLocals(resolve_module_key(pack, Locals))
    /\ pc' = "meetcore"
    /\ UNCHANGED <<REQUIRED_PATHS, REQUIRED_SECTIONS, pack, result, calls, history>>

\* Lines 146-159.
MeetcorePaths ==
    /\ pc = "meetcore"
    /\ mod_key = meetcore_key
    /\ SetLocals(ensure_required(pack, Locals, meetcore_required))
    /\ REQUIRED_PATHS' = required_paths_after(REQUIRED_PATHS, checked_paths')
    /\ pc' = "content"
    /\ UNCHANGED <<REQUIRED_SECTIONS, pack, result, calls, history>>

\* Line 146, the test false.
NotMeetcore ==
    /\ pc = "meetcore"
    /\ mod_key # meetcore_key
    /\ pc' = "gating"
    /\ UNCHANGED <<REQUIRED_PATHS, REQUIRED_SECTIONS, pack, gaps, checked_paths,
                   checked_sections, meta, plan_text, mod_key, result, calls, history>>

\* Lines 163-182.
MeetcoreContent ==
    /\ pc = "content"
    /\ SetLocals(meetcore_content(pack, Locals))
    /\ pc' = "gating"
    /\ UNCHANGED <<REQUIRED_PATHS, REQUIRED_SECTIONS, pack, result, calls, history>>

\* Lines 186-207.
FamilyGating ==
    /\ pc = "gating"
    /\ SetLocals(family_gating(pack, Locals))
    /\ REQUIRED_PATHS' = required_paths_after(REQUIRED_PATHS, checked_paths')
    /\ pc' = "sections"
    /\ UNCHANGED <<REQUIRED_SECTIONS, pack, result, calls, history>>

\* Lines 211-216.
Sections ==
    /\ pc = "sections"
    /\ SetLocals(check_sections(Locals, REQUIRED_SECTIONS))
    /\ pc' = "trace_ids"
    /\ UNCHANGED <<REQUIRED_PATHS, REQUIRED_SECTIONS, pack, result, calls, history>>

\* Lines 218-224.
TraceIds ==
    /\ pc = "trace_ids"
    /\ SetLocals(check_trace_ids(Locals))
    /\ pc' = "return"
    /\ UNCHANGED <<REQUIRED_PATHS, REQUIRED_SECTIONS, pack, result, calls, history>>

\* Lines 226-227.
Return ==
    /\ pc = "return"
    /\ result' = Returned(make_report(Locals))
    /\ pc' = "done"
    /\ UNCHANGED <<REQUIRED_PATHS, REQUIRED_SECTIONS, pack, gaps, checked_paths,
                   checked_sections, meta, plan_text, mod_key, calls, history>>

\* The caller validates another pack: the locals of the call that ended are
\* gone, the module-level lists stay.
CallAgain ==
    /\ pc \in {"done", "raised"}
    /\ calls < MaxCalls
    /\ pack' \in FewPacks
    /\ SetLocals(Blank)
    /\ result' = NoResult
    /\ calls' = calls + 1
    /\ history' = Append(history, mod_key)
    /\ pc' = "enter"
    /\ UNCHANGED <<REQUIRED_PATHS, REQUIRED_SECTIONS>>

Next ==
    \/ Enter
    \/ OpenDir
    \/ OpenZip
    \/ OpenFails
    \/ ResolveModuleKey
    \/ MeetcorePaths
    \/ NotMeetcore
    \/ MeetcoreContent
    \/ FamilyGating
    \/ Sections
    \/ TraceIds
    \/ Return

\* One call of validate_pack0 on any pack of Packs.
Spec == Init /\ [][Next]_vars

NextCalls == Next \/ CallAgain

\* Up to MaxCalls calls in a row on packs of FewPacks.
SpecCalls == InitCalls /\ [][NextCalls]_vars

NextKey == Enter \/ OpenDir \/ ResolveModuleKey

\* The call up to the module key, on the packs of KeyPacks.
SpecKey == InitKey /\ [][NextKey]_vars


-----------------------------------------------------------------------------
(* What the properties are stated with.                                    *)

HasReport == result.tag = "report"

Report == result.report

\* The number of times x occurs in seq.
Count(seq, x) == Cardinality({i \in DOMAIN seq : seq[i] = x})

NoDuplicates(seq) == \A i, j \in DOMAIN seq : seq[i] = seq[j] => i = j

IndexIn(seq, x) == CHOOSE i \in DOMAIN seq : seq[i] = x

\* The pack presented the other way: the directory as an archive of the same
\* files, the archive as the directory it unpacks to.
OtherKind(p) == [p EXCEPT !.kind = IF p.kind = "dir" THEN "zip" ELSE "dir"]

\* The gating rules as the design states them: alias set and extra paths.
GatingRules ==
    {[aliases |-> { <<"m","e","e","t","c","o","r","e">> },
      extras  |-> << "docs/MEETCORE_SLICES.md", "docs/PERFORMANCE_BUDGETS.md",
                     "docs/DATA_RETENTION_MATRIX.md" >>],
     [aliases |-> { <<"l","a","i","-","c","o","n","n","e","c","t">>, <<"c","o","n","n","e","c","t">>, <<"l","a","i","-","c","o","n","n","e","c","t","-","m","v","p">> },
      extras  |-> << "docs/CONNECT_SLICES.md", "docs/DATA_RETENTION_MATRIX.md" >>],
     [aliases |-> { <<"a","p","p","-","l","a","i">>, <<"a","p","p">>, <<"l","a","i","-","a","p","p">> },
      extras  |-> << "docs/APP_LAI_SLICES.md", "docs/DATA_RETENTION_MATRIX.md" >>],
     [aliases |-> { <<"c","u","l","t","u","r","e","-","p","e","o","p","l","e">>, <<"c","u","l","t","u","r","e">>, <<"l","a","i","-","c","u","l","t","u","r","e">>,
                    <<"c","u","l","t","u","r","e","-","a","n","d","-","p","e","o","p","l","e">> },
      extras  |-> << "docs/CULTURE_PEOPLE_SLICES.md",
                     "docs/DATA_RETENTION_MATRIX.md" >>]}

RulesFor(key) == {r \in GatingRules : key \in r.aliases}

ExtrasFor(key) ==
    IF RulesFor(key) = {} THEN <<>> ELSE (CHOOSE r \in RulesFor(key) : TRUE).extras

\* The three meetcore content gaps and the read failure.
MeetcoreContentGaps == {GapSlices, GapBudget, GapRetention, GapDocsReadFailed}

IdGaps == <<GapRF, GapRNF, GapUC>>

-----------------------------------------------------------------------------
(* C1: in every report, each baseline path that does not exist in the pack *)
(* has its gap missing_path::X, and ok is false.                           *)
C1_MissingBaselineReported ==
    HasReport =>
        \A X \in Range(BaselinePaths) :
            X \notin pack.present =>
                /\ <<"missing_path", X>> \in Range(Report.gaps)
                /\ Report.ok = FALSE

C1_Witness ==
    /\ HasReport
    /\ pack.kind = "zip"
    /\ "contracts/README.json" \notin pack.present
    /\ <<"missing_path", "contracts/README.json">> \in Range(Report.gaps)

(* C2: the report of a pack is the report of the same contents presented   *)
(* the other way (directory for archive, archive for directory).           *)
C2_DirAndZipSameReport ==
    HasReport =>
        result = validate_pack0(OtherKind(pack), REQUIRED_PATHS, REQUIRED_SECTIONS)

C4_OneGapWhenDocUnreadable ==
    ( /\ pc \in {"gating", "sections", "trace_ids", "return", "done"}
      /\ mod_key = meetcore_key
      /\ \E d \in Range(meetcore_required) : d \notin pack.present )
    => SelectSeq(gaps, LAMBDA g : g \in MeetcoreContentGaps) = <<GapDocsReadFailed>>

(* C5: checked_paths is the baseline followed by the extra paths of the    *)
(* one rule whose aliases hold the module key (none when no rule does),    *)
(* without duplicates and whatever exists; every missing_path gap names a  *)
(* checked path, and every checked path that is absent has exactly one.    *)
C5_CheckedPathsAndGaps ==
    HasReport =>
        /\ Cardinality(RulesFor(mod_key)) <= 1
        /\ Report.checked_paths = BaselinePaths \o ExtrasFor(mod_key)
        /\ NoDuplicates(Report.checked_paths)
        /\ \A g \in Range(Report.gaps) :
               g[1] = "missing_path" => g[2] \in Range(Report.checked_paths)
        /\ \A X \in Range(Report.checked_paths) :
               Count(Report.gaps, <<"missing_path", X>>)
                   = IF X \in pack.present THEN 0 ELSE 1

C5_Witness ==
    /\ HasReport
    /\ mod_key = <<"l","a","i","-","c","o","n","n","e","c","t">>
    /\ "docs/DATA_RETENTION_MATRIX.md" \notin pack.present
    /\ Count(Report.gaps, <<"missing_path", "docs/DATA_RETENTION_MATRIX.md">>) = 1
    /\ Len(Report.checked_paths) = Len(BaselinePaths) + Len(connect_required)

\* The plan holds the heading as written.
PlanHasHeading(p, sec) == contains(p.text[PLAN], SectionChars[sec])

\* The plan holds a token <PREFIX>-<digit>... at the start of a word.
PlanHasIdToken(p, prefix) ==
    LET t == p.text[PLAN]
        n == Len(prefix)
    IN  \E i \in 1..(Len(t) - n - 1) :
           /\ i = 1 \/ t[i - 1] \in Whitespace
           /\ SubSeq(t, i, i + n - 1) = prefix
           /\ t[i + n] = "-"
           /\ t[i + n + 1] \in Digits

(* C6: a pack with the 8 baseline paths, a plan holding the 22 headings    *)
(* and an RF, an RNF and a UC id, and a module key no rule knows, gets     *)
(* ok = true and no gap.                                                   *)
C6_CompletePackIsOk ==
    ( /\ HasReport
      /\ Range(BaselinePaths) \subseteq pack.present
      /\ RulesFor(mod_key) = {}
      /\ PlanHasIdToken(pack, <<"R","F">>)
      /\ PlanHasIdToken(pack, <<"R","N","F">>)
      /\ PlanHasIdToken(pack, <<"U","C">>)
      /\ \A k \in DOMAIN SectionNames : PlanHasHeading(pack, SectionNames[k]) )
    => Report.ok = TRUE /\ Report.gaps = <<>>

C6_Witness ==
    /\ HasReport
    /\ pack.kind = "zip"
    /\ Range(BaselinePaths) \subseteq pack.present
    /\ pack.text[PLAN] = PlanFull
    /\ mod_key = <<"u","n","k","n","o","w","n">>
    /\ Report.ok = TRUE

\* The stage a gap comes from: 1 paths, 2 meetcore content, 3 sections, 4 ids.
StageOf(g) ==
    IF g[1] = "missing_path" THEN 1
    ELSE IF g \in MeetcoreContentGaps THEN 2
    ELSE IF g[1] = "missing_section" THEN 3
    ELSE 4

(* C7: the gaps of a report come in stage order: paths, meetcore content,  *)
(* sections in the order of REQUIRED_SECTIONS, then RF, RNF, UC; and a     *)
(* pack without docs/PLAN.md has that path's gap, the 22 section gaps and  *)
(* the 3 id gaps, whatever the earlier stages found.                       *)
C7_StagesInOrderNoneSkipped ==
    HasReport =>
        LET g == Report.gaps
        IN  /\ \A i, j \in DOMAIN g :
                   i < j =>
                       /\ StageOf(g[i]) <= StageOf(g[j])
                       /\ (StageOf(g[i]) = 3 /\ StageOf(g[j]) = 3) =>
                              IndexIn(SectionNames, g[i][2]) < IndexIn(SectionNames, g[j][2])
                       /\ (StageOf(g[i]) = 4 /\ StageOf(g[j]) = 4) =>
                              IndexIn(IdGaps, g[i]) < IndexIn(IdGaps, g[j])
            /\ \A i \in DOMAIN g : StageOf(g[i]) = 4 => g[i] \in Range(IdGaps)
            /\ PLAN \notin pack.present =>
                   /\ <<"missing_path", PLAN>> \in Range(g)
                   /\ \A k \in DOMAIN SectionNames :
                          <<"missing_section", SectionNames[k]>> \in Range(g)
                   /\ \A k \in DOMAIN IdGaps : IdGaps[k] \in Range(g)

C7_Witness ==
    /\ HasReport
    /\ PLAN \notin pack.present
    /\ mod_key = meetcore_key
    /\ GapBudget \in Range(Report.gaps)
    /\ Len(Report.gaps) = 1 + 1 + Len(SectionNames) + Len(IdGaps)

\* The pack_id the manifest declares, "" when there is none to read.
DeclaredPackId(p) ==
    IF p.manifest.exists /\ p.manifest.json = "object" /\ "pack_id" \in DOMAIN p.manifest.obj
    THEN p.manifest.obj["pack_id"]
    ELSE EmptyStr

\* The characters after the first hyphen of s up to the next hyphen.
SecondField(s) ==
    LET i1   == MinOf({i \in 1..Len(s) : s[i] = "-"})
        tail == SubSeq(s, i1 + 1, Len(s))
        n    == MaxOf({k \in 0..Len(tail) : \A j \in 1..k : tail[j] # "-"})
    IN  SubSeq(tail, 1, n)

\* The raw module name by the priority the design states.
RawModuleName(p) ==
    IF startswith(DeclaredPackId(p), <<"p","a","c","k","0","-">>)
    THEN SubSeq(DeclaredPackId(p), 7, Len(DeclaredPackId(p)))
    ELSE IF startswith(p.name, <<"p","a","c","k","0","-">>) THEN SecondField(p.name)
    ELSE EmptyStr

IsAlnum(c) == c \in AsciiLowerAlnum

(* C8: the module key is made of [a-z0-9-] only, has no hyphen at either   *)
(* end and no two hyphens in a row, keeps the letters and digits of the    *)
(* lowercased raw name in order, has a hyphen exactly where the raw name   *)
(* has other characters between two of them, and is left unchanged by      *)
(* normalizing again; the raw name is the rest of a pack_id that starts    *)
(* with "pack0-", else the second hyphen field of a root name that starts  *)
(* with "pack0-", else empty.                                              *)
C8_ModuleKey ==
    pc = "meetcore" =>
        LET raw  == lower(RawModuleName(pack))
            kept == {i \in 1..Len(raw) : IsAlnum(raw[i])}
            pos  == {i \in 1..Len(mod_key) : mod_key[i] # "-"}
        IN  /\ \A i \in 1..Len(mod_key) : IsAlnum(mod_key[i]) \/ mod_key[i] = "-"
            /\ mod_key # <<>> => mod_key[1] # "-" /\ mod_key[Len(mod_key)] # "-"
            /\ \A i \in 1..(Len(mod_key) - 1) : ~(mod_key[i] = "-" /\ mod_key[i + 1] = "-")
            /\ SelectSeq(mod_key, IsAlnum) = SelectSeq(raw, IsAlnum)
            /\ Len(mod_key) = Cardinality(kept)
                   + Cardinality({i \in kept : i + 1 \notin kept /\ \E j \in kept : j > i})
            /\ normalize_key(mod_key) = mod_key
            /\ pack.manifest = MeetcoreManifest => mod_key = <<"m","e","e","t","c","o","r","e">>
            /\ pack.manifest = ConnectManifest => mod_key = <<"l","a","i","-","c","o","n","n","e","c","t">>
            /\ (pack.manifest = NoManifest /\ pack.name = <<"p","a","c","k","0","-","u","n","k","n","o","w","n","-","t","h","i","n","g">>) =>
                   mod_key = <<"u","n","k","n","o","w","n">> /\ RulesFor(mod_key) = {}

C8_Witness ==
    /\ pc = "meetcore"
    /\ DeclaredPackId(pack) = <<"p","a","c","k","0","-"," ","É","a">>
    /\ mod_key = <<"a">>

(* C9: a root that cannot be opened never yields a report: once the open   *)
(* has run the call has raised, and no gap was recorded; and only such a   *)
(* root makes the call raise.                                              *)
C9_OpenFailureIsRaised ==
    /\ pack.kind \notin {"dir", "zip"} =>
           /\ result.tag # "report"
           /\ gaps = <<>>
           /\ pc \in {"enter", "open", "raised"}
           /\ pc = "raised" => result.tag = "raised"
    /\ result.tag = "raised" => pack.kind \notin {"dir", "zip"}

C9_Witness ==
    /\ pc = "raised"
    /\ pack.kind = "notzip"
    /\ result = Raised("BadZipFile")

(* C10: whatever calls came before, the two module-level lists are as the  *)
(* module set them, the result of the call is the one a first call on the  *)
(* same pack gives, and a pack whose key no rule knows has the baseline    *)
(* paths alone as checked_paths.                                           *)
C10_NoStateAcrossCalls ==
    /\ REQUIRED_PATHS = BaselinePaths
    /\ REQUIRED_SECTIONS = SectionNames
    /\ result.tag # "none" => result = validate_pack0(pack, BaselinePaths, SectionNames)
    /\ (HasReport /\ RulesFor(mod_key) = {}) => Report.checked_paths = BaselinePaths

C10_Witness ==
    /\ calls = 2
    /\ history = << <<"m","e","e","t","c","o","r","e">> >>
    /\ HasReport
    /\ mod_key = <<"u","n","k","n","o","w","n">>
    /\ Report.checked_paths = BaselinePaths

=============================================================================
